---- MODULE Spec2Model ----
(***************************************************************************)
(* The website-audit pipeline of AI-Auditor: the POST /api/analyze handler *)
(* (URL validation, credential check, three concurrent collectors, the two *)
(* provider analyses, the brand-perception branch, report assembly) and    *)
(* the two consensus reducers it calls.                                    *)
(*                                                                         *)
(* A JavaScript string is a sequence of tokens (a token is a run of        *)
(* characters: a scheme with its colon, "//", a host, a blank, a word).    *)
(* An optional value (undefined / absent JSON field) is None or Some(v).   *)
(***************************************************************************)
EXTENDS Integers, Sequences, FiniteSets, TLC

None == [tag |-> "none"]
Some(v) == [tag |-> "some", val |-> v]
IsSome(o) == o.tag = "some"

(***************************************************************************)
(* Strings and URLs                                                        *)
(***************************************************************************)
Blank == " "

RECURSIVE TrimStart(_)
TrimStart(s) == IF s # <<>> /\ Head(s) = Blank THEN TrimStart(Tail(s)) ELSE s

RECURSIVE TrimEnd(_)
TrimEnd(s) ==
  IF s # <<>> /\ s[Len(s)] = Blank THEN TrimEnd(SubSeq(s, 1, Len(s) - 1)) ELSE s

\* String.prototype.trim
Trim(s) == TrimEnd(TrimStart(s))

\* The scheme tokens of the strings below, with the protocol the URL parser
\* reports for each (the parser lower-cases the scheme).
SchemeProtocol ==
  [t \in {"https:", "http:", "HTTPS:", "ftp:", "mailto:"} |->
     CASE t = "https:" -> "https:"
       [] t = "http:" -> "http:"
       [] t = "HTTPS:" -> "https:"
       [] t = "ftp:" -> "ftp:"
       [] t = "mailto:" -> "mailto:"]

\* Schemes whose URLs must have a non-empty host.
SpecialProtocols == {"https:", "http:", "ftp:"}

\* new URL(value) without a base: fails (throws) unless the string starts with
\* a scheme; a special scheme needs a host without blanks after the optional
\* slashes.
ParseURL(s) ==
  IF s = <<>> \/ Head(s) \notin DOMAIN SchemeProtocol
  THEN [ok |-> FALSE, protocol |-> ""]
  ELSE LET protocol == SchemeProtocol[Head(s)]
           rest == Tail(s)
           host == IF rest # <<>> /\ Head(rest) = "//" THEN Tail(rest) ELSE rest
       IN IF protocol \in SpecialProtocols
             /\ (host = <<>> \/ \E i \in 1..Len(host) : host[i] = Blank)
          THEN [ok |-> FALSE, protocol |-> ""]
          ELSE [ok |-> TRUE, protocol |-> protocol]

\* isValidHttpsUrl without the protocol test: any URL that parses is accepted.
isValidHttpsUrl_AnyProtocol(value) == ParseURL(value).ok

isValidHttpsUrl(value) ==
  LET parsed == ParseURL(value)
  IN parsed.ok /\ (parsed.protocol = "https:" \/ parsed.protocol = "http:")

\* url.startsWith('https://')
StartsWithHttps(s) == Len(s) >= 2 /\ s[1] = "https:" /\ s[2] = "//"

(***************************************************************************)
(* The requests and the environment                                        *)
(***************************************************************************)
ValidUrlTexts ==
  { <<"https:", "//", "example.com">>,
    <<Blank, "http:", "//", "example.com", Blank>> }

InvalidUrlTexts ==
  { <<"not", Blank, "a", Blank, "url">>,
    <<"ftp:", "//", "example.com">>,
    <<"example.com">>,
    <<"https:", "//">>,
    <<"mailto:", "a@example.com">>,
    <<Blank>>,
    <<>> }

\* The `url` field of the JSON body: a string, absent, or another JSON type.
UrlFields ==
  { [type |-> "string", text |-> t] : t \in ValidUrlTexts \cup InvalidUrlTexts }
    \cup { [type |-> "undefined", text |-> <<>>], [type |-> "number", text |-> <<>>] }

\* The `debug` field of the JSON body.
DebugFields == {"true", "undefined", "string"}

\* The request body: JSON that does not parse, the JSON value null, or an object.
Bodies ==
  { [json |-> "malformed", url |-> [type |-> "undefined", text |-> <<>>], debug |-> "undefined"],
    [json |-> "null", url |-> [type |-> "undefined", text |-> <<>>], debug |-> "undefined"] }
    \cup { [json |-> "object", url |-> u, debug |-> d] : u \in UrlFields, d \in DebugFields }

\* process.env: which of the three keys are set.
Environments ==
  [openaiKey : BOOLEAN, anthropicKey : BOOLEAN, pageSpeedKey : BOOLEAN]

(***************************************************************************)
(* What the collectors return                                              *)
(***************************************************************************)
\* A PageSpeed response; the performance score is kept in percent.
PageSpeedResults == { [hasData |-> TRUE, performance |-> Some(90)] }

\* The empty object {} that stands for "no PageSpeed data".
EmptyPageSpeed == [hasData |-> FALSE, performance |-> None]

\* What scraper.extractAll() returns for a page.
ScrapeResults ==
  { [schema |-> [hasSchema |-> TRUE, count |-> 1, recommendations |-> <<>>],
     socialTags |-> [overallScore |-> 75, recommendations |-> <<>>]] }

\* The scraper's .catch handler answering without the failure's message.
ScrapeFallback_NoMessage(message) ==
  [schema |-> [hasSchema |-> FALSE, count |-> 0, recommendations |-> <<>>],
   socialTags |-> [overallScore |-> 0, recommendations |-> <<>>]]

\* The struct the scraper's .catch handler returns.
ScrapeFallback(message) ==
  [schema |-> [hasSchema |-> FALSE, count |-> 0,
               recommendations |-> <<"Unable to scrape website: " \o message>>],
   socialTags |-> [overallScore |-> 0,
                   recommendations |-> <<"Unable to scrape website: " \o message>>]]

\* The struct used when the scraper's promise is rejected.
ScrapeRejectedDefault ==
  [schema |-> [hasSchema |-> FALSE, count |-> 0, recommendations |-> <<>>],
   socialTags |-> [overallScore |-> 0, recommendations |-> <<>>]]

\* What GET /api/ssl-check answers with when SSL Labs has a grade.
SSLCheckResult(url) ==
  [hasSSL |-> StartsWithHttps(url), grade |-> "A", error |-> None]

\* How the SSL check can end: a grade, fetch throwing, or a non-OK response.
SSLOutcomes == {"ok", "networkError", "notOk"}

SSLErrorMessage(outcome) ==
  IF outcome = "networkError" THEN "fetch failed"
  ELSE "SSL check failed: Internal Server Error"

\* fetchSSLData with a fallback that reports no SSL whatever the URL.
fetchSSLData_NoScheme(url, outcome) ==
  IF outcome = "ok"
  THEN [settled |-> "fulfilled", value |-> SSLCheckResult(url)]
  ELSE [settled |-> "fulfilled",
        value |-> [hasSSL |-> FALSE, grade |-> "Error",
                   error |-> Some(SSLErrorMessage(outcome))]]

\* fetchSSLData: its own try/catch turns every failure into a fallback grade,
\* so the promise it returns is always fulfilled.
fetchSSLData(url, outcome) ==
  IF outcome = "ok"
  THEN [settled |-> "fulfilled", value |-> SSLCheckResult(url)]
  ELSE [settled |-> "fulfilled",
        value |-> [hasSSL |-> StartsWithHttps(url), grade |-> "Error",
                   error |-> Some(SSLErrorMessage(outcome))]]

(***************************************************************************)
(* Words, insights and analyses                                            *)
(***************************************************************************)
\* String.prototype.length of the words used below.
WordLength ==
  [w \in {"Strong", "strong", "Value", "value", "proposition", "messaging",
          "Clear", "clear", "and", "Fast", "fast", "load", "times", "Good",
          "good", "accessibility", "brand", "voice"} |->
     CASE w \in {"Strong", "strong"} -> 6
       [] w \in {"Value", "value", "Clear", "clear", "times", "brand", "voice"} -> 5
       [] w = "proposition" -> 11
       [] w = "messaging" -> 9
       [] w = "and" -> 3
       [] w \in {"Fast", "fast", "load", "Good", "good"} -> 4
       [] w = "accessibility" -> 13]

Vocabulary == DOMAIN WordLength

\* String.prototype.toLowerCase on one word.
ToLowerCase(w) ==
  CASE w = "Strong" -> "strong"
    [] w = "Value" -> "value"
    [] w = "Clear" -> "clear"
    [] w = "Fast" -> "fast"
    [] w = "Good" -> "good"
    [] OTHER -> w

\* insight.toLowerCase().split(' '): an insight is kept as its list of words.
LowerWords(insight) == [i \in 1..Len(insight) |-> ToLowerCase(insight[i])]

Includes(seq, x) == \E i \in 1..Len(seq) : seq[i] = x

\* Array.prototype.slice(0, n)
Slice(seq, n) == SubSeq(seq, 1, IF Len(seq) < n THEN Len(seq) ELSE n)

InsightStrongValue == <<"Strong", "value", "proposition", "messaging">>
InsightClearValue == <<"Clear", "value", "proposition", "and", "messaging">>
InsightFastLoad == <<"Fast", "load", "times">>
InsightGoodAccess == <<"Good", "accessibility">>
InsightStrongStrong == <<"Strong", "brand", "strong", "voice">>
InsightStrongAccess == <<"Strong", "accessibility">>

Scores(bv, geo, th) ==
  Some([brandVoice |-> bv, geoReadiness |-> geo, technicalHealth |-> th])

\* A JSON array field of a provider's answer: an array, absent, or (against
\* the requested schema) a string.
ArrayField(items) == [type |-> "array", items |-> items]
AbsentField == [type |-> "undefined", items |-> <<>>]
StringField == [type |-> "string", items |-> <<>>]

\* parsed.keyInsights || []
OrEmptyArray(field) == IF field.type = "undefined" THEN ArrayField(<<>>) ELSE field

\* JSON objects the primary provider may answer with.
OpenAIParsed ==
  { [scores |-> Scores(Some(80), Some(20), Some(50)),
     keyInsights |-> ArrayField(<<InsightStrongValue, InsightFastLoad>>),
     recommendations |-> ArrayField(<<"o1", "o2", "o3", "o4">>)],
    [scores |-> Scores(Some(0), Some(90), None),
     keyInsights |-> ArrayField(<<InsightFastLoad, InsightStrongStrong>>),
     recommendations |-> AbsentField],
    [scores |-> None,
     keyInsights |-> StringField,
     recommendations |-> ArrayField(<<"o1">>)] }

\* JSON objects the secondary provider may answer with.
ClaudeParsed ==
  { [scores |-> Scores(Some(20), Some(80), Some(50)),
     keyInsights |-> ArrayField(<<InsightClearValue, InsightGoodAccess, InsightStrongAccess>>),
     recommendations |-> ArrayField(<<"c1", "c2">>)],
    [scores |-> Scores(Some(50), Some(20), Some(50)),
     keyInsights |-> AbsentField,
     recommendations |-> ArrayField(<<"c1", "c2", "c3", "c4">>)],
    [scores |-> None,
     keyInsights |-> ArrayField(<<InsightClearValue>>),
     recommendations |-> ArrayField(<<"c1">>)] }

\* The AIAnalysis both adapters build from the parsed JSON.
ToAIAnalysis(provider, parsed) ==
  [provider |-> provider,
   scores |-> parsed.scores,
   keyInsights |-> OrEmptyArray(parsed.keyInsights),
   recommendations |-> OrEmptyArray(parsed.recommendations)]

(***************************************************************************)
(* The consensus reducer and the confidence                                *)
(***************************************************************************)
\* The callback of claude.keyInsights.some(...)
InsightsMatch(oInsight, cInsight) ==
  LET oWords == LowerWords(oInsight)
      cWords == LowerWords(cInsight)
      commonWords == SelectSeq(oWords, LAMBDA word : Includes(cWords, word) /\ WordLength[word] > 4)
  IN Len(commonWords) >= 2

\* forEach / some are not functions of a string: the reducer throws a
\* TypeError when a keyInsights value it iterates is not an array.
ConsensusThrows(openai, claude) ==
  \/ openai.keyInsights.type # "array"
  \/ openai.keyInsights.items # <<>> /\ claude.keyInsights.type # "array"

createDualAIConsensus(openai, claude) ==
  LET hasMatch(oInsight) ==
        \E j \in 1..Len(claude.keyInsights.items) :
           InsightsMatch(oInsight, claude.keyInsights.items[j])
  IN [agreedInsights |-> SelectSeq(openai.keyInsights.items, hasMatch),
      uniqueToOpenAI |-> openai.keyInsights.items,
      uniqueToClaude |-> claude.keyInsights.items,
      recommendedActions |->
        Slice(openai.recommendations.items, 3) \o Slice(claude.recommendations.items, 3)]

\* analysis.scores?.<dimension>
ScoreOf(analysis, dimension) ==
  IF IsSome(analysis.scores) THEN analysis.scores.val[dimension] ELSE None

\* x || 0 : an absent score and a score of 0 both give 0.
OrZero(score) == IF IsSome(score) /\ score.val # 0 THEN score.val ELSE 0

Abs(n) == IF n < 0 THEN -n ELSE n

SignedDiff(openai, claude, dimension) ==
  OrZero(ScoreOf(openai, dimension)) - OrZero(ScoreOf(claude, dimension))

\* avgScoreDiff as the code computes it, kept as the fraction num / den.
avgScoreDiff(openai, claude) ==
  [num |-> Abs(SignedDiff(openai, claude, "brandVoice")
               + SignedDiff(openai, claude, "geoReadiness")
               + SignedDiff(openai, claude, "technicalHealth")),
   den |-> 3]

\* fraction < n
LessThan(fraction, n) == fraction.num < n * fraction.den

\* The confidence with the two thresholds included in the lower class.
confidenceOf_Inclusive(diff) ==
  IF ~LessThan(diff, 10) /\ diff.num # 10 * diff.den
  THEN IF ~LessThan(diff, 20) /\ diff.num # 20 * diff.den THEN "low" ELSE "medium"
  ELSE "high"

confidenceOf(diff) ==
  IF LessThan(diff, 10) THEN "high" ELSE IF LessThan(diff, 20) THEN "medium" ELSE "low"

(***************************************************************************)
(* Brand perceptions and the brand consensus reducer                       *)
(***************************************************************************)
AttrInnovative == <<"Innovative">>
AttrInnovativeDesign == <<"innovative", Blank, "design">>
AttrTrusted == <<"trusted">>
AttrModern == <<"Modern">>
AttrModernLower == <<"modern">>

\* String.prototype.toLowerCase on an attribute, token by token.
LowerAttr(attr) ==
  [i \in 1..Len(attr) |->
     CASE attr[i] = "Innovative" -> "innovative"
       [] attr[i] = "Modern" -> "modern"
       [] OTHER -> attr[i]]

\* A comparison that accepts equal strings only.
StringIncludes_Equal(hay, needle) == hay = needle

\* String.prototype.includes: needle occurs in hay as a contiguous run.
StringIncludes(hay, needle) ==
  \E i \in 0..(Len(hay) - Len(needle)) : SubSeq(hay, i + 1, i + Len(needle)) = needle

\* JSON objects a perception call may answer with; a provider may leave out
\* fields it was asked for.
OpenAIPerceptions ==
  { [detectedBrandAttributes |-> ArrayField(<<AttrInnovative, AttrTrusted, AttrModern>>),
     positioningClarity |-> Some(80), differentiationScore |-> Some(60),
     targetAudienceClarity |-> Some(40)],
    [detectedBrandAttributes |-> ArrayField(<<AttrInnovative>>),
     positioningClarity |-> None, differentiationScore |-> Some(60),
     targetAudienceClarity |-> Some(40)],
    [detectedBrandAttributes |-> AbsentField,
     positioningClarity |-> Some(80), differentiationScore |-> Some(60),
     targetAudienceClarity |-> Some(40)] }

ClaudePerceptions ==
  { [detectedBrandAttributes |-> ArrayField(<<AttrInnovativeDesign, AttrModernLower, AttrTrusted>>),
     positioningClarity |-> Some(93), differentiationScore |-> Some(30),
     targetAudienceClarity |-> Some(60)],
    [detectedBrandAttributes |-> ArrayField(<<AttrModernLower, AttrTrusted>>),
     positioningClarity |-> Some(61), differentiationScore |-> Some(80),
     targetAudienceClarity |-> None] }

\* JSON objects the recommendation call may answer with.
RecommendationSets ==
  { [metadataRecommendations |-> ArrayField(<<"m1", "m2">>),
     contentRecommendations |-> ArrayField(<<"c1">>),
     designRecommendations |-> ArrayField(<<"d1">>),
     aiAgentOptimizations |-> ArrayField(<<"ChatGPT">>)],
    [metadataRecommendations |-> ArrayField(<<"m1">>),
     contentRecommendations |-> AbsentField,
     designRecommendations |-> AbsentField,
     aiAgentOptimizations |-> AbsentField] }

\* A JavaScript number: NaN, or the fraction num / den.
NaN == [nan |-> TRUE, num |-> 0, den |-> 1]

\* (a + b) / 2 over fields that may be absent: undefined + n is NaN.
Average(a, b) ==
  IF IsSome(a) /\ IsSome(b) THEN [nan |-> FALSE, num |-> a.val + b.val, den |-> 2] ELSE NaN

\* x > n
AtLeast_Strict(x, n) == ~x.nan /\ x.num > n * x.den

\* x >= n and x < n; every comparison with NaN is false.
AtLeast(x, n) == ~x.nan /\ x.num >= n * x.den
Below(x, n) == ~x.nan /\ x.num < n * x.den

\* Rounding down.
MathRound_Floor(num, den) == num \div den

\* Math.round(num / den) for a non-negative fraction: halves round up.
MathRound(num, den) == (2 * num + den) \div (2 * den)

\* .filter / .some are read from detectedBrandAttributes: a TypeError when
\* the field they are called on is absent.
BrandConsensusThrows(openaiPerception, claudePerception) ==
  \/ openaiPerception.detectedBrandAttributes.type # "array"
  \/ openaiPerception.detectedBrandAttributes.items # <<>>
       /\ claudePerception.detectedBrandAttributes.type # "array"

EntryIf(cond, text) == IF cond THEN <<text>> ELSE <<>>

createBrandConsensus(openaiPerception, claudePerception, recommendations) ==
  LET cAttrs == claudePerception.detectedBrandAttributes.items
      agreed(attr) ==
        \E j \in 1..Len(cAttrs) :
           \/ StringIncludes(LowerAttr(cAttrs[j]), LowerAttr(attr))
           \/ StringIncludes(LowerAttr(attr), LowerAttr(cAttrs[j]))
      consensusBrandAttributes ==
        SelectSeq(openaiPerception.detectedBrandAttributes.items, agreed)
      avgPositioning ==
        Average(openaiPerception.positioningClarity, claudePerception.positioningClarity)
      avgDifferentiation ==
        Average(openaiPerception.differentiationScore, claudePerception.differentiationScore)
      avgTargetAudience ==
        Average(openaiPerception.targetAudienceClarity, claudePerception.targetAudienceClarity)
      allNumbers == ~avgPositioning.nan /\ ~avgDifferentiation.nan /\ ~avgTargetAudience.nan
  IN [openaiPerception |-> openaiPerception,
      claudePerception |-> claudePerception,
      consensusBrandAttributes |-> consensusBrandAttributes,
      brandStrengths |->
        EntryIf(AtLeast(avgPositioning, 70), "Clear brand positioning")
        \o EntryIf(AtLeast(avgDifferentiation, 70), "Strong differentiation")
        \o EntryIf(AtLeast(avgTargetAudience, 70), "Well-defined target audience")
        \o EntryIf(Len(consensusBrandAttributes) >= 3,
                      "Consistent brand attributes across AI agents"),
      brandWeaknesses |->
        EntryIf(~AtLeast(avgPositioning, 70) /\ Below(avgPositioning, 50),
                   "Unclear brand positioning")
        \o EntryIf(~AtLeast(avgDifferentiation, 70) /\ Below(avgDifferentiation, 50),
                      "Weak competitive differentiation")
        \o EntryIf(~AtLeast(avgTargetAudience, 70) /\ Below(avgTargetAudience, 50),
                      "Unclear target audience")
        \o EntryIf(Len(consensusBrandAttributes) < 2,
                      "Inconsistent brand perception across AI platforms"),
      competitivePositioning |->
        IF AtLeast(avgDifferentiation, 70)
        THEN "Strong - Brand stands out clearly to AI agents"
        ELSE IF AtLeast(avgDifferentiation, 50)
        THEN "Moderate - Some differentiation visible to AI agents"
        ELSE "Weak - Brand blends in with competitors from AI perspective",
      metadataRecommendations |-> recommendations.metadataRecommendations,
      contentRecommendations |-> recommendations.contentRecommendations,
      designRecommendations |-> recommendations.designRecommendations,
      aiAgentOptimizations |-> recommendations.aiAgentOptimizations,
      overallBrandClarityScore |->
        IF allNumbers
        THEN Some(MathRound(avgPositioning.num + avgDifferentiation.num
                            + avgTargetAudience.num, 2 * 3))
        ELSE None]

(***************************************************************************)
(* The state of one POST /api/analyze request                              *)
(***************************************************************************)
VARIABLES
  request,       \* the request body
  env,           \* process.env
  pc,            \* where the handler is suspended
  url,           \* const url
  debug,         \* const debug
  diagnostics,   \* const diagnostics: DiagnosticLog[]
  tasks,         \* the promises the handler awaits, by name
  retries,       \* let retries of analyzeWithClaude (0 outside the call)
  dualAI,        \* let dualAI
  brandAnalysis, \* let brandAnalysis
  response,      \* the NextResponse the handler returned
  failed,        \* history: the collectors whose outbound call failed
  browser,       \* the page the browser shows and its React state
  sessionStorage, \* window.sessionStorage: the keys set, with their values
  file,          \* data/submissions.json
  savers         \* the running saveSubmission calls

vars ==
  <<request, env, pc, url, debug, diagnostics, tasks, retries, dualAI,
    brandAnalysis, response, failed, browser, sessionStorage, file, savers>>

\* What the request handler never reads or writes.
outsideHandler == <<browser, sessionStorage, file, savers>>

TaskNames ==
  {"pageSpeed", "scrape", "ssl", "openai", "claude", "brandOpenAI", "brandClaude",
   "delay", "recommendations"}

Idle == [state |-> "idle", value |-> None, reason |-> ""]
Pending == [state |-> "pending", value |-> None, reason |-> ""]
Fulfilled(v) == [state |-> "fulfilled", value |-> Some(v), reason |-> ""]
Rejected(message) == [state |-> "rejected", value |-> None, reason |-> message]

\* A join that goes on as soon as the promise exists.
Settled_Started(name) == tasks[name].state # "idle"

Settled(name) == tasks[name].state \in {"fulfilled", "rejected"}

\* diagnostics.push({ step, status: 'started', timestamp })
Push(diags, step) == Append(diags, [step |-> step, status |-> "started", error |-> ""])

\* A lookup that takes the entry pushed last, whatever its step.
FindStep_Last(diags, step) == Len(diags)

\* The index diagnostics.find(d => d.step === step) stops at.
FindStep(diags, step) ==
  CHOOSE i \in 1..Len(diags) :
    diags[i].step = step /\ \A j \in 1..(i - 1) : diags[j].step # step

\* diagnostics.find(...)!.status = status (the error is left as it was)
SetStatus(diags, step, status) ==
  [diags EXCEPT ![FindStep(diags, step)].status = status]

\* diagnostics.find(...)!.status = status; ...!.error = message
SetStatusError(diags, step, status, message) ==
  [diags EXCEPT ![FindStep(diags, step)].status = status,
                ![FindStep(diags, step)].error = message]

\* diagnostics[diagnostics.length - 1].status = status
SetLastStatus(diags, status) == [diags EXCEPT ![Len(diags)].status = status]

Count(diags, status) == Cardinality({i \in 1..Len(diags) : diags[i].status = status})

\* NextResponse.json({ message }, { status: 400 })
InvalidUrlResponse ==
  [status |-> 400, message |-> Some("Please provide a valid URL."), details |-> None,
   diagnostics |-> None, report |-> None]

\* The response of the missing-key branch.
ConfigurationErrorResponse(diags) ==
  [status |-> 500,
   message |-> Some("Server configuration error. OpenAI API key not configured."),
   details |-> None,
   diagnostics |-> Some([steps |-> diags, summary |-> None]),
   report |-> None]

\* The response of the handler's catch block: the error's message and stack.
CaughtErrorResponse(message, diags) ==
  [status |-> 500, message |-> Some(message), details |-> Some("stack: " \o message),
   diagnostics |-> Some([steps |-> diags, summary |-> None]),
   report |-> None]

(***************************************************************************)
(* The browser and the submissions file                                    *)
(***************************************************************************)
\* The landing page with its form, before anything is submitted.
LandingPage == [page |-> "landing", view |-> "form", submissionId |-> "", via |-> "none"]

\* data/submissions.json does not exist.
NoFile == [exists |-> FALSE, submissions |-> <<>>]

\* data/submissions.json holding JSON.stringify(submissions).
FileWith(submissions) == [exists |-> TRUE, submissions |-> submissions]

MaxSavers == 3

\* The saveSubmission calls that may run at the same time.
Savers == 1..MaxSavers

\* A saveSubmission call that was not made.
NotCalled == [pc |-> "notCalled", submissions |-> <<>>]

Init ==
  /\ request \in Bodies
  /\ env \in Environments
  /\ pc = "start"
  /\ url = <<>>
  /\ debug = FALSE
  /\ diagnostics = <<>>
  /\ tasks = [n \in TaskNames |-> Idle]
  /\ retries = 0
  /\ dualAI = None
  /\ brandAnalysis = None
  /\ response = None
  /\ failed = {}
  /\ browser = LandingPage
  /\ sessionStorage = <<>>
  /\ file = NoFile
  /\ savers = [s \in Savers |-> NotCalled]

\* POST up to `await request.json()`.
ReceiveRequest ==
  /\ pc = "start"
  /\ diagnostics' = Push(diagnostics, "Parse request")
  /\ pc' = "parsing"
  /\ UNCHANGED <<failed, request, env, url, debug, tasks, retries, dualAI, brandAnalysis,
                 response>>
  /\ UNCHANGED outsideHandler

\* const url = typeof json?.url === "string" ? json.url.trim() : ""
UrlOf(body) ==
  IF body.json = "object" /\ body.url.type = "string" THEN Trim(body.url.text) ELSE <<>>

\* const debug = json?.debug === true
DebugOf(body) == body.json = "object" /\ body.debug = "true"

\* The three collector steps pushed before the collectors are launched.
CollectorSteps(diags) ==
  Push(Push(Push(diags, "Fetch PageSpeed data"), "Scrape website"), "Check SSL")

\* The diagnostics after the collectors are launched: without a PageSpeed key
\* the PageSpeed step is marked skipped at once.
LaunchDiagnostics(diags, hasPageSpeedKey) ==
  IF hasPageSpeedKey THEN CollectorSteps(diags)
  ELSE SetStatusError(CollectorSteps(diags), "Fetch PageSpeed data", "skipped", "No API key")

\* The promises handed to the first Promise.allSettled.
LaunchCollectors(hasPageSpeedKey) ==
  [tasks EXCEPT !["pageSpeed"] = IF hasPageSpeedKey THEN Pending ELSE Fulfilled(EmptyPageSpeed),
                !["scrape"] = Pending,
                !["ssl"] = Pending]

\* The key check passing as soon as one of the two provider keys is set.
MissingRequiredKey_EitherKey(e) == ~e.openaiKey /\ ~e.anthropicKey

\* if (!openaiKey)
MissingRequiredKey(e) == ~e.openaiKey

\* POST from the settling of request.json() to `await Promise.allSettled` of
\* the collectors: parse, validate the URL, check the keys, launch.
ParseRequest ==
  /\ pc = "parsing"
  /\ IF request.json = "malformed"
     THEN /\ response' = Some(CaughtErrorResponse("Unexpected token in JSON", diagnostics))
          /\ pc' = "done"
          /\ UNCHANGED <<url, debug, diagnostics, tasks>>
     ELSE LET parsedDiags == SetLastStatus(diagnostics, "success")
              keyDiags == Push(parsedDiags, "Check API keys")
          IN /\ url' = UrlOf(request)
             /\ debug' = DebugOf(request)
             /\ IF ~isValidHttpsUrl(UrlOf(request))
                THEN /\ response' = Some(InvalidUrlResponse)
                     /\ diagnostics' = parsedDiags
                     /\ pc' = "done"
                     /\ UNCHANGED tasks
                ELSE IF MissingRequiredKey(env)
                THEN /\ diagnostics' =
                          SetStatusError(keyDiags, "Check API keys", "error",
                                         "OpenAI API key not configured")
                     /\ response' = Some(ConfigurationErrorResponse(diagnostics'))
                     /\ pc' = "done"
                     /\ UNCHANGED tasks
                ELSE /\ diagnostics' =
                          LaunchDiagnostics(SetLastStatus(keyDiags, "success"), env.pageSpeedKey)
                     /\ tasks' = LaunchCollectors(env.pageSpeedKey)
                     /\ pc' = "collecting"
                     /\ UNCHANGED response
  /\ UNCHANGED <<failed, request, env, retries, dualAI, brandAnalysis>>
  /\ UNCHANGED outsideHandler

\* fetchPageSpeedData settles; a rejection runs the .catch handler, which
\* marks the step and fulfils with {}.
PageSpeedSettles ==
  /\ pc = "collecting"
  /\ tasks["pageSpeed"].state = "pending"
  /\ \/ \E data \in PageSpeedResults :
          /\ tasks' = [tasks EXCEPT !["pageSpeed"] = Fulfilled(data)]
          /\ UNCHANGED <<diagnostics, failed>>
     \/ /\ tasks' = [tasks EXCEPT !["pageSpeed"] = Fulfilled(EmptyPageSpeed)]
        /\ failed' = failed \cup {"pageSpeed"}
        /\ diagnostics' =
             SetStatusError(diagnostics, "Fetch PageSpeed data", "error",
                            "PageSpeed API error: Forbidden")
  /\ UNCHANGED <<request, env, pc, url, debug, retries, dualAI, brandAnalysis,
                 response>>
  /\ UNCHANGED outsideHandler

\* scrapeWebsite settles; a rejection runs the .catch handler.
ScrapeSettles ==
  /\ pc = "collecting"
  /\ tasks["scrape"].state = "pending"
  /\ \/ \E data \in ScrapeResults :
          /\ tasks' = [tasks EXCEPT !["scrape"] = Fulfilled(data)]
          /\ UNCHANGED <<diagnostics, failed>>
     \/ /\ tasks' = [tasks EXCEPT !["scrape"] = Fulfilled(ScrapeFallback("Not Found"))]
        /\ failed' = failed \cup {"scrape"}
        /\ diagnostics' =
             SetStatusError(diagnostics, "Scrape website", "error", "Not Found")
  /\ UNCHANGED <<request, env, pc, url, debug, retries, dualAI, brandAnalysis,
                 response>>
  /\ UNCHANGED outsideHandler

\* What fetchSSLData(url).catch(...) settles to: the handler's own fallback
\* would run only if fetchSSLData rejected.
SSLPromise(outcome) ==
  LET inner == fetchSSLData(url, outcome)
  IN IF inner.settled = "fulfilled" THEN Fulfilled(inner.value)
     ELSE Fulfilled([hasSSL |-> StartsWithHttps(url), grade |-> "Error",
                     error |-> Some(SSLErrorMessage(outcome))])

SSLSettles ==
  /\ pc = "collecting"
  /\ tasks["ssl"].state = "pending"
  /\ \E outcome \in SSLOutcomes :
       /\ tasks' = [tasks EXCEPT !["ssl"] = SSLPromise(outcome)]
       /\ failed' = IF outcome = "ok" THEN failed ELSE failed \cup {"ssl"}
       /\ diagnostics' =
            IF fetchSSLData(url, outcome).settled = "fulfilled" THEN diagnostics
            ELSE SetStatusError(diagnostics, "Check SSL", "error", SSLErrorMessage(outcome))
  /\ UNCHANGED <<request, env, pc, url, debug, retries, dualAI, brandAnalysis,
                 response>>
  /\ UNCHANGED outsideHandler

(***************************************************************************)
(* Report assembly                                                         *)
(***************************************************************************)
\* const pageSpeed / scraped / ssl, read off the settled collector promises.
pageSpeedOf(t) ==
  IF t["pageSpeed"].state = "fulfilled" THEN t["pageSpeed"].value.val ELSE EmptyPageSpeed

scrapedOf(t) ==
  IF t["scrape"].state = "fulfilled" THEN t["scrape"].value.val ELSE ScrapeRejectedDefault

\* null when the promise was rejected
sslOf(t) == IF t["ssl"].state = "fulfilled" THEN t["ssl"].value ELSE None

\* dualAI?.openai.scores?.<dimension> || 50
OrFifty(dual, dimension) ==
  LET score == IF IsSome(dual) THEN ScoreOf(dual.val.openai, dimension) ELSE None
  IN IF IsSome(score) /\ score.val # 0 THEN score.val ELSE 50

\* (score ?? 0) * 100, rounded; the score is already kept in percent.
PerformanceScore(pageSpeed) ==
  IF IsSome(pageSpeed.performance) THEN pageSpeed.performance.val ELSE 0

\* The `diagnostics` member of the report: only in debug mode.
ReportDiagnostics(diags, isDebug) ==
  IF isDebug
  THEN Some([steps |-> diags,
             summary |-> Some([totalSteps |-> Len(diags),
                               successful |-> Count(diags, "success"),
                               failed |-> Count(diags, "error"),
                               skipped |-> Count(diags, "skipped")])])
  ELSE None

\* const response = { success: true, ... } (the members that are constants
\* of the source are left out).
BuildReport(t, dual, brand) ==
  [url |-> url,
   summary |->
     IF IsSome(dual) /\ dual.val.consensus.recommendedActions # <<>>
     THEN dual.val.consensus.recommendedActions[1] ELSE "Analysis complete",
   score |->
     [overall |-> MathRound(OrFifty(dual, "brandVoice") + OrFifty(dual, "geoReadiness")
                            + OrFifty(dual, "technicalHealth"), 3),
      brandVoice |-> OrFifty(dual, "brandVoice"),
      geoReadiness |-> OrFifty(dual, "geoReadiness"),
      technicalHealth |-> OrFifty(dual, "technicalHealth"),
      clarityNotes |-> IF IsSome(dual) THEN dual.val.consensus.agreedInsights ELSE <<>>],
   performance |-> [overallScore |-> PerformanceScore(pageSpeedOf(t))],
   keyThemes |-> IF IsSome(dual) THEN Slice(dual.val.openai.keyInsights.items, 4) ELSE <<>>,
   actionPlan |-> IF IsSome(dual) THEN Slice(dual.val.consensus.recommendedActions, 5) ELSE <<>>,
   ssl |-> sslOf(t),
   schema |-> scrapedOf(t).schema,
   socialTags |-> scrapedOf(t).socialTags,
   dualAI |-> dual,
   brandAnalysis |-> brand]

\* Report assembly that answers 500 when there is no dual analysis.
ReportResponse_DualRequired(t, diags, dual, brand) ==
  [status |-> IF IsSome(dual) THEN 200 ELSE 500, message |-> None, details |-> None,
   diagnostics |-> ReportDiagnostics(diags, debug),
   report |-> Some(BuildReport(t, dual, brand))]

\* return NextResponse.json(response)
ReportResponse(t, diags, dual, brand) ==
  [status |-> 200, message |-> None, details |-> None,
   diagnostics |-> ReportDiagnostics(diags, debug),
   report |-> Some(BuildReport(t, dual, brand))]

(***************************************************************************)
(* The join of the collectors and the provider analyses                    *)
(***************************************************************************)
MarkFulfilled(diags, t, name, step) ==
  IF t[name].state = "fulfilled" THEN SetStatus(diags, step, "success") ELSE diags

\* "Update diagnostics for data fetching"
CollectorDiagnostics(diags, t) ==
  MarkFulfilled(MarkFulfilled(MarkFulfilled(diags, t, "pageSpeed", "Fetch PageSpeed data"),
                              t, "scrape", "Scrape website"),
                t, "ssl", "Check SSL")

AnalysisSteps(diags) == Push(Push(diags, "Analyze with OpenAI"), "Analyze with Claude")

\* POST from the settling of the collectors' allSettled to the next await:
\* with a secondary client the two analyses are launched; without one the
\* Claude step is skipped, no analysis is called and the report is returned.
CollectorsSettled ==
  /\ pc = "collecting"
  /\ Settled("pageSpeed") /\ Settled("scrape") /\ Settled("ssl")
  /\ LET diags == AnalysisSteps(CollectorDiagnostics(diagnostics, tasks))
     IN IF env.anthropicKey
        THEN /\ diagnostics' = diags
             /\ tasks' = [tasks EXCEPT !["openai"] = Pending, !["claude"] = Pending]
             /\ pc' = "analyzing"
             /\ UNCHANGED response
        ELSE /\ diagnostics' =
                  SetStatusError(diags, "Analyze with Claude", "skipped", "No API key")
             /\ response' = Some(ReportResponse(tasks, diagnostics', dualAI, brandAnalysis))
             /\ pc' = "done"
             /\ UNCHANGED tasks
  /\ UNCHANGED <<failed, request, env, url, debug, retries, dualAI, brandAnalysis>>
  /\ UNCHANGED outsideHandler

\* How one call of the primary provider can end.
OpenAIReplies ==
  { [kind |-> k, parsed |-> None] : k \in {"apiError", "empty", "unparseable"} }
    \cup { [kind |-> "json", parsed |-> Some(p)] : p \in OpenAIParsed }

analyzeWithOpenAI(reply) ==
  CASE reply.kind = "apiError" -> Rejected("OpenAI API error")
    [] reply.kind = "empty" -> Rejected("No content in OpenAI response")
    [] reply.kind = "unparseable" -> Rejected("Failed to parse OpenAI response")
    [] reply.kind = "json" -> Fulfilled(ToAIAnalysis("openai", reply.parsed.val))

OpenAISettles ==
  /\ pc = "analyzing"
  /\ tasks["openai"].state = "pending"
  /\ \E reply \in OpenAIReplies :
       tasks' = [tasks EXCEPT !["openai"] = analyzeWithOpenAI(reply)]
  /\ UNCHANGED <<failed, request, env, pc, url, debug, diagnostics, retries, dualAI,
                 brandAnalysis, response>>
  /\ UNCHANGED outsideHandler

maxRetries == 2

\* How one call of anthropic.messages.create can end.
ClaudeReplies ==
  { [kind |-> k, parsed |-> None] : k \in {"rateLimit", "apiError", "unparseable"} }
    \cup { [kind |-> "json", parsed |-> Some(p)] : p \in ClaudeParsed }

\* The retry loop retrying after every error of the API call.
ShouldRetry_AnyError(reply, n) == reply.kind \in {"rateLimit", "apiError"} /\ n < maxRetries

\* errorMessage.includes('rate_limit') && retries < maxRetries
ShouldRetry(reply, n) == reply.kind = "rateLimit" /\ n < maxRetries

\* retries++ that leaves the counter as it is.
NextRetries_Stuck(n) == n

\* retries++
NextRetries(n) == n + 1

\* Math.pow(2, retries) * 1000
waitTime(n) == (2 ^ n) * 1000

\* The call suspended on its backoff timer after catching an error.
Waiting(ms, errorMessage) ==
  [state |-> "waiting", value |-> Some([waitTime |-> ms]), reason |-> errorMessage]

\* The message of the error a reply makes analyzeWithClaude catch or throw.
ClaudeErrorMessage(reply) ==
  CASE reply.kind = "rateLimit" -> "rate_limit_error"
    [] reply.kind = "apiError" -> "Anthropic API error"
    [] reply.kind = "unparseable" -> "Failed to parse Claude response"

\* One pass of the retry loop of analyzeWithClaude and what follows it: a
\* rate-limit error with retries left starts the backoff timer, any other
\* error is re-thrown, a message is parsed. The local `retries` ends with the
\* call.
ClaudeAttemptSettles ==
  /\ pc = "analyzing"
  /\ tasks["claude"].state = "pending"
  /\ \E reply \in ClaudeReplies :
       IF ShouldRetry(reply, retries)
       THEN /\ retries' = NextRetries(retries)
            /\ tasks' = [tasks EXCEPT !["claude"] = Waiting(waitTime(retries'), ClaudeErrorMessage(reply))]
       ELSE /\ retries' = 0
            /\ tasks' =
                 [tasks EXCEPT !["claude"] =
                    IF reply.kind = "json"
                    THEN Fulfilled(ToAIAnalysis("anthropic", reply.parsed.val))
                    ELSE Rejected(ClaudeErrorMessage(reply))]
  /\ UNCHANGED <<failed, request, env, pc, url, debug, diagnostics, dualAI, brandAnalysis,
                 response>>
  /\ UNCHANGED outsideHandler

\* The backoff timer fires and the loop calls the provider again.
ClaudeBackoffElapses ==
  /\ pc = "analyzing"
  /\ tasks["claude"].state = "waiting"
  /\ tasks' = [tasks EXCEPT !["claude"] = Pending]
  /\ UNCHANGED <<failed, request, env, pc, url, debug, diagnostics, retries, dualAI, brandAnalysis,
                 response>>
  /\ UNCHANGED outsideHandler

\* "Update OpenAI diagnostics" / "Update Claude diagnostics"
ResultDiagnostics(diags, t, name, step) ==
  IF t[name].state = "fulfilled" THEN SetStatus(diags, step, "success")
  ELSE SetStatusError(diags, step, "error", t[name].reason)

AnalysisDiagnostics(diags, t) ==
  ResultDiagnostics(ResultDiagnostics(diags, t, "openai", "Analyze with OpenAI"),
                    t, "claude", "Analyze with Claude")

BothFulfilled(t, a, b) == t[a].state = "fulfilled" /\ t[b].state = "fulfilled"

\* dualAI = { openai, claude, consensus, confidence }
MakeDualAI(openai, claude) ==
  Some([openai |-> openai, claude |-> claude,
        consensus |-> createDualAIConsensus(openai, claude),
        confidence |-> confidenceOf(avgScoreDiff(openai, claude))])

BrandSteps(diags) ==
  Push(Push(diags, "Brand analysis with OpenAI"), "Brand analysis with Claude")

\* POST from the settling of the analyses' allSettled to the allSettled of
\* the brand-perception calls; a TypeError of the reducer reaches the
\* handler's catch block.
AnalysesSettled ==
  /\ pc = "analyzing"
  /\ Settled("openai") /\ Settled("claude")
  /\ LET diags == AnalysisDiagnostics(diagnostics, tasks)
         both == BothFulfilled(tasks, "openai", "claude")
         openai == tasks["openai"].value.val
         claude == tasks["claude"].value.val
     IN IF both /\ ConsensusThrows(openai, claude)
        THEN /\ diagnostics' = diags
             /\ response' =
                  Some(CaughtErrorResponse("openai.keyInsights.forEach is not a function",
                                           diags))
             /\ pc' = "done"
             /\ UNCHANGED <<tasks, dualAI>>
        ELSE /\ dualAI' = IF both THEN MakeDualAI(openai, claude) ELSE dualAI
             /\ diagnostics' = BrandSteps(diags)
             /\ tasks' = [tasks EXCEPT !["brandOpenAI"] = Pending,
                                       !["brandClaude"] = Pending,
                                       !["delay"] = Pending]
             /\ pc' = "branding"
             /\ UNCHANGED response
  /\ UNCHANGED <<failed, request, env, url, debug, retries, brandAnalysis>>
  /\ UNCHANGED outsideHandler

(***************************************************************************)
(* The brand-perception branch                                             *)
(***************************************************************************)
\* How a perception call or the recommendation call can end besides JSON.
CallFailures == {"apiError", "unparseable"}

FailureMessage(kind) ==
  IF kind = "apiError" THEN "API error" ELSE "Unexpected token in JSON"

\* analyzeBrandWithOpenAI: the parsed JSON is returned as it is.
analyzeBrandWithOpenAI(reply) ==
  IF reply.kind = "json" THEN Fulfilled(reply.parsed.val)
  ELSE Rejected(FailureMessage(reply.kind))

\* analyzeBrandWithClaude: the parsed JSON is returned as it is.
analyzeBrandWithClaude(reply) ==
  IF reply.kind = "json" THEN Fulfilled(reply.parsed.val)
  ELSE Rejected(FailureMessage(reply.kind))

Replies(parsedSet) ==
  { [kind |-> k, parsed |-> None] : k \in CallFailures }
    \cup { [kind |-> "json", parsed |-> Some(p)] : p \in parsedSet }

BrandOpenAISettles ==
  /\ pc = "branding"
  /\ tasks["brandOpenAI"].state = "pending"
  /\ \E reply \in Replies(OpenAIPerceptions) :
       tasks' = [tasks EXCEPT !["brandOpenAI"] = analyzeBrandWithOpenAI(reply)]
  /\ UNCHANGED <<failed, request, env, pc, url, debug, diagnostics, retries, dualAI,
                 brandAnalysis, response>>
  /\ UNCHANGED outsideHandler

BrandClaudeSettles ==
  /\ pc = "branding"
  /\ tasks["brandClaude"].state = "pending"
  /\ \E reply \in Replies(ClaudePerceptions) :
       tasks' = [tasks EXCEPT !["brandClaude"] = analyzeBrandWithClaude(reply)]
  /\ UNCHANGED <<failed, request, env, pc, url, debug, diagnostics, retries, dualAI,
                 brandAnalysis, response>>
  /\ UNCHANGED outsideHandler

\* new Promise(resolve => setTimeout(resolve, 100)), the third promise of
\* the brand allSettled
DelayElapses ==
  /\ pc = "branding"
  /\ tasks["delay"].state = "pending"
  /\ tasks' = [tasks EXCEPT !["delay"] = Fulfilled("elapsed")]
  /\ UNCHANGED <<failed, request, env, pc, url, debug, diagnostics, retries, dualAI,
                 brandAnalysis, response>>
  /\ UNCHANGED outsideHandler

BrandDiagnostics(diags, t) ==
  ResultDiagnostics(ResultDiagnostics(diags, t, "brandOpenAI", "Brand analysis with OpenAI"),
                    t, "brandClaude", "Brand analysis with Claude")

\* POST from the settling of the brand allSettled: with both perceptions the
\* recommendation call is issued and awaited, otherwise the report is
\* returned without brand analysis.
BrandSettled ==
  /\ pc = "branding"
  /\ Settled("brandOpenAI") /\ Settled("brandClaude") /\ Settled("delay")
  /\ diagnostics' = BrandDiagnostics(diagnostics, tasks)
  /\ IF BothFulfilled(tasks, "brandOpenAI", "brandClaude")
     THEN /\ tasks' = [tasks EXCEPT !["recommendations"] = Pending]
          /\ pc' = "recommending"
          /\ UNCHANGED response
     ELSE /\ response' = Some(ReportResponse(tasks, diagnostics', dualAI, brandAnalysis))
          /\ pc' = "done"
          /\ UNCHANGED tasks
  /\ UNCHANGED <<failed, request, env, url, debug, retries, dualAI, brandAnalysis>>
  /\ UNCHANGED outsideHandler

\* generateBrandRecommendations: the parsed JSON is returned as it is.
generateBrandRecommendations(reply) ==
  IF reply.kind = "json" THEN Fulfilled(reply.parsed.val)
  ELSE Rejected(FailureMessage(reply.kind))

\* The brand branch building its analysis from empty recommendations when
\* the recommendation call failed.
BrandAnalysisOf_DefaultRecommendations(t) ==
  LET openaiPerception == t["brandOpenAI"].value.val
      claudePerception == t["brandClaude"].value.val
      noRecommendations ==
        [metadataRecommendations |-> ArrayField(<<>>),
         contentRecommendations |-> ArrayField(<<>>),
         designRecommendations |-> ArrayField(<<>>),
         aiAgentOptimizations |-> ArrayField(<<>>)]
  IN IF BrandConsensusThrows(openaiPerception, claudePerception) THEN None
     ELSE Some(createBrandConsensus(openaiPerception, claudePerception,
                                    IF t["recommendations"].state = "fulfilled"
                                    THEN t["recommendations"].value.val
                                    ELSE noRecommendations))

\* The rest of the try block after the recommendation call settled: a
\* rejection of the call and a TypeError of the reducer both end in the
\* catch (brandError) block, which leaves brandAnalysis undefined.
BrandAnalysisOf(t) ==
  LET openaiPerception == t["brandOpenAI"].value.val
      claudePerception == t["brandClaude"].value.val
  IN IF t["recommendations"].state # "fulfilled" THEN None
     ELSE IF BrandConsensusThrows(openaiPerception, claudePerception) THEN None
     ELSE Some(createBrandConsensus(openaiPerception, claudePerception,
                                    t["recommendations"].value.val))

\* POST from the settling of generateBrandRecommendations to the return.
RecommendationsSettle ==
  /\ pc = "recommending"
  /\ tasks["recommendations"].state = "pending"
  /\ \E reply \in Replies(RecommendationSets) :
       tasks' = [tasks EXCEPT !["recommendations"] = generateBrandRecommendations(reply)]
  /\ brandAnalysis' = BrandAnalysisOf(tasks')
  /\ response' = Some(ReportResponse(tasks', diagnostics, dualAI, brandAnalysis'))
  /\ pc' = "done"
  /\ UNCHANGED <<failed, request, env, url, debug, diagnostics, retries, dualAI>>
  /\ UNCHANGED outsideHandler

Next ==
  \/ ReceiveRequest
  \/ ParseRequest
  \/ PageSpeedSettles
  \/ ScrapeSettles
  \/ SSLSettles
  \/ CollectorsSettled
  \/ OpenAISettles
  \/ ClaudeAttemptSettles
  \/ ClaudeBackoffElapses
  \/ AnalysesSettled
  \/ BrandOpenAISettles
  \/ BrandClaudeSettles
  \/ DelayElapses
  \/ BrandSettled
  \/ RecommendationsSettle

Spec == Init /\ [][Next]_vars

\* The steps the handler and its timers take by themselves: every step but
\* the settling of an outbound call.
HandlerStep ==
  \/ ReceiveRequest
  \/ ParseRequest
  \/ CollectorsSettled
  \/ ClaudeBackoffElapses
  \/ AnalysesSettled
  \/ DelayElapses
  \/ BrandSettled

\* The handler runs whenever it can; an outbound call settles only if the
\* other side answers or the connection breaks (the source sets no timeout
\* on any call).
HandlerFairSpec == Spec /\ WF_vars(HandlerStep)

\* Every outbound call eventually settles and the handler runs whenever it
\* can.
FairSpec == Spec /\ WF_vars(Next)

(***************************************************************************)
(* The submissions file: saveSubmission, getSubmission, getAllSubmissions  *)
(***************************************************************************)
\* submissionData.submissionId of the submission a call saves.
SubmissionIdOf(s) == "sub_" \o ToString(s)

\* const newSubmission: StoredSubmission (the data and the report it carries
\* are left out)
NewSubmission(s) == [id |-> SubmissionIdOf(s)]

\* getSubmission: null when the file cannot be read or holds no such id.
getSubmission(f, id) ==
  IF ~f.exists \/ ~\E i \in 1..Len(f.submissions) : f.submissions[i].id = id
  THEN None
  ELSE Some(f.submissions[CHOOSE i \in 1..Len(f.submissions) :
                            /\ f.submissions[i].id = id
                            /\ \A j \in 1..(i - 1) : f.submissions[j].id # id])

\* getAllSubmissions: [] when the file cannot be read.
getAllSubmissions(f) == IF f.exists THEN f.submissions ELSE <<>>

\* The handler before any request reached it.
HandlerIdle ==
  /\ pc = "unsent"
  /\ url = <<>>
  /\ debug = FALSE
  /\ diagnostics = <<>>
  /\ tasks = [n \in TaskNames |-> Idle]
  /\ retries = 0
  /\ dualAI = None
  /\ brandAnalysis = None
  /\ response = None
  /\ failed = {}

\* A submission saved earlier.
OldSubmission == [id |-> "sub_0"]

StorageInit ==
  /\ HandlerIdle
  /\ request = [json |-> "null", url |-> [type |-> "undefined", text |-> <<>>],
                debug |-> "undefined"]
  /\ env = [openaiKey |-> TRUE, anthropicKey |-> TRUE, pageSpeedKey |-> TRUE]
  /\ browser = LandingPage
  /\ sessionStorage = <<>>
  /\ file \in {NoFile, FileWith(<<OldSubmission>>)}
  /\ savers = [s \in Savers |-> NotCalled]

handlerVars ==
  <<request, env, pc, url, debug, diagnostics, tasks, retries, dualAI, brandAnalysis,
    response, failed>>

\* saveSubmission is called and suspends on fs.mkdir.
CallSave(s) ==
  /\ savers[s].pc = "notCalled"
  /\ savers' = [savers EXCEPT ![s].pc = "mkdir"]
  /\ UNCHANGED <<handlerVars, browser, sessionStorage, file>>

\* fs.mkdir settles: the call goes on to fs.readFile, or the outer catch
\* throws 'Failed to save submission to local storage'.
MkdirSettles(s) ==
  /\ savers[s].pc = "mkdir"
  /\ \/ savers' = [savers EXCEPT ![s].pc = "readFile"]
     \/ savers' = [savers EXCEPT ![s].pc = "failed"]
  /\ UNCHANGED <<handlerVars, browser, sessionStorage, file>>

\* fs.readFile settles: the parsed array, or [] when there is no file; the
\* new record is pushed and fs.writeFile is called with the whole array.
ReadFileSettles(s) ==
  /\ savers[s].pc = "readFile"
  /\ savers' =
       [savers EXCEPT ![s] =
          [pc |-> "writeFile",
           submissions |-> Append(IF file.exists THEN file.submissions ELSE <<>>,
                                  NewSubmission(s))]]
  /\ UNCHANGED <<handlerVars, browser, sessionStorage, file>>

\* fs.writeFile settles: the file holds what this call wrote, or the write
\* failed and the call throws.
WriteFileSettles(s) ==
  /\ savers[s].pc = "writeFile"
  /\ \/ /\ file' = FileWith(savers[s].submissions)
        /\ savers' = [savers EXCEPT ![s].pc = "saved"]
     \/ /\ savers' = [savers EXCEPT ![s].pc = "failed"]
        /\ UNCHANGED file
  /\ UNCHANGED <<handlerVars, browser, sessionStorage>>

StorageNext ==
  \E s \in Savers :
    \/ CallSave(s)
    \/ MkdirSettles(s)
    \/ ReadFileSettles(s)
    \/ WriteFileSettles(s)

\* Calls of saveSubmission running against one submissions file.
StorageSpec == StorageInit /\ [][StorageNext]_vars

(***************************************************************************)
(* The browser: the landing page's form and the report page                *)
(***************************************************************************)
\* `sub_${Date.now()}_${Math.random()...}`: an id no earlier submission has.
GeneratedSubmissionId == "sub_1700000000000_k3j9x2a1b"

\* What the form sends: JSON.stringify({ url: companyUrl, submissionData }).
FormBodies ==
  { [json |-> "object", url |-> [type |-> "string", text |-> t], debug |-> "undefined"] :
      t \in { <<"https:", "//", "example.com">>, <<"not", Blank, "a", Blank, "url">> } }

\* `report_${submissionId}`
StorageKey(id) == "report_" \o id

\* What the browser and the server hold from earlier visits: nothing, or an
\* earlier report in the file and (well-formed or not) in sessionStorage.
EarlierStores ==
  { [session |-> <<>>, file |-> NoFile],
    [session |-> [k \in {StorageKey(OldSubmission.id)} |-> "json"],
     file |-> FileWith(<<OldSubmission>>)],
    [session |-> [k \in {StorageKey(OldSubmission.id)} |-> "garbage"],
     file |-> FileWith(<<OldSubmission>>)] }

ClientInit ==
  /\ HandlerIdle
  /\ request \in FormBodies
  /\ env \in Environments
  /\ browser = LandingPage
  /\ \E stores \in EarlierStores :
       /\ sessionStorage = stores.session
       /\ file = stores.file
  /\ savers = [s \in Savers |-> NotCalled]

\* handleSubmit up to `await fetch('/api/analyze', ...)`: the request reaches
\* the handler.
handleSubmit ==
  /\ browser.page = "landing"
  /\ browser.view = "form"
  /\ pc = "unsent"
  /\ browser' = [browser EXCEPT !.view = "submitting", !.submissionId = GeneratedSubmissionId]
  /\ pc' = "start"
  /\ UNCHANGED <<request, env, url, debug, diagnostics, tasks, retries, dualAI, brandAnalysis,
                 response, failed, sessionStorage, file, savers>>

\* response.ok
Ok(resp) == resp.status >= 200 /\ resp.status <= 299

\* handleSubmit after the fetch settled: router.push to the report page, or
\* the alert of the catch block. The response body is not read.
SubmitSettles ==
  /\ browser.view = "submitting"
  /\ pc = "done"
  /\ browser' =
       IF Ok(response.val)
       THEN [page |-> "report", view |-> "loading",
             submissionId |-> browser.submissionId, via |-> "submit"]
       ELSE [browser EXCEPT !.view = "alert"]
  /\ UNCHANGED <<handlerVars, sessionStorage, file, savers>>

\* The ids a report link may carry: none, an earlier one, an unknown one.
LinkedIds == {"", OldSubmission.id, "sub_unknown"}

\* The user opens /report?id=... directly.
OpenReportLink ==
  /\ browser.page = "landing"
  /\ browser.view = "form"
  /\ \E id \in LinkedIds :
       browser' = [page |-> "report", view |-> "loading", submissionId |-> id, via |-> "link"]
  /\ UNCHANGED <<handlerVars, sessionStorage, file, savers>>

\* The effect of ReportPage: no id, a parseable sessionStorage entry, or the
\* fetch of /api/submission.
ReportPageEffect ==
  /\ browser.page = "report"
  /\ browser.view = "loading"
  /\ browser' =
       [browser EXCEPT !.view =
          IF browser.submissionId = "" THEN "no-id"
          ELSE IF StorageKey(browser.submissionId) \in DOMAIN sessionStorage
                  /\ sessionStorage[StorageKey(browser.submissionId)] = "json"
          THEN "report"
          ELSE "fetching"]
  /\ UNCHANGED <<handlerVars, sessionStorage, file, savers>>

\* GET /api/submission?id=...: the stored submission, or not found.
SubmissionRoute(f, id) ==
  IF IsSome(getSubmission(f, id))
  THEN [status |-> 200, body |-> getSubmission(f, id)]
  ELSE [status |-> 404, body |-> None]

\* The fetch of /api/submission settles: the submission is shown, or the
\* catch handler sets 'not-found' (also when the fetch itself fails).
SubmissionFetchSettles ==
  /\ browser.view = "fetching"
  /\ \/ browser' =
          [browser EXCEPT !.view =
             IF Ok(SubmissionRoute(file, browser.submissionId)) THEN "report" ELSE "not-found"]
     \/ browser' = [browser EXCEPT !.view = "not-found"]
  /\ UNCHANGED <<handlerVars, sessionStorage, file, savers>>

ClientNext ==
  \/ handleSubmit
  \/ Next
  \/ SubmitSettles
  \/ OpenReportLink
  \/ ReportPageEffect
  \/ SubmissionFetchSettles

\* The browser submitting the form to the handler and loading the report.
ClientSpec == ClientInit /\ [][ClientNext]_vars

(***************************************************************************)
(* Properties                                                              *)
(***************************************************************************)
Status == response.val.status
Report == response.val.report.val

\* The body was JSON, so the handler computed a trimmed url.
BodyParsed == request.json # "malformed"

\* The url of the body is missing, not a string, or one of the strings that
\* are no absolute http/https URL.
UrlIsInvalid == request.url.type # "string" \/ request.url.text \in InvalidUrlTexts

NoCallIssued == \A n \in TaskNames : tasks[n].state = "idle"

PassedChecks == BodyParsed /\ ~UrlIsInvalid /\ env.openaiKey

HasStep(step) == \E i \in 1..Len(diagnostics) : diagnostics[i].step = step

\* C1: a request whose url is missing, not a string, not an absolute URL or
\* not http/https is answered 400 whatever its debug field, and no collector
\* or provider call is issued for it; https://example.com is never answered
\* 400.
C1_InvalidUrlIs400 ==
  /\ (BodyParsed /\ UrlIsInvalid) => NoCallIssued
  /\ (BodyParsed /\ UrlIsInvalid /\ pc \notin {"start", "parsing"})
       => (pc = "done" /\ Status = 400)
  /\ (pc = "done" /\ request.json = "object" /\ request.url.type = "string"
        /\ request.url.text = <<"https:", "//", "example.com">>)
       => Status # 400

C1_Witness ==
  /\ pc = "done"
  /\ Status = 400
  /\ request.url.type = "string"
  /\ request.url.text = <<"ftp:", "//", "example.com">>
  /\ request.debug = "true"

FallbacksInPlace ==
  /\ "pageSpeed" \in failed => Report.performance.overallScore = 0
  /\ "scrape" \in failed =>
       /\ Report.schema =
            [hasSchema |-> FALSE, count |-> 0,
             recommendations |-> <<"Unable to scrape website: Not Found">>]
       /\ Report.socialTags =
            [overallScore |-> 0,
             recommendations |-> <<"Unable to scrape website: Not Found">>]
  /\ "ssl" \in failed =>
       /\ IsSome(Report.ssl)
       /\ Report.ssl.val.grade = "Error"
       /\ IsSome(Report.ssl.val.error)

ScoreOrDefault(analysis, dimension) ==
  IF IsSome(ScoreOf(analysis, dimension)) THEN ScoreOf(analysis, dimension).val ELSE 50

ReportScoresAre(analysis) ==
  /\ Report.score.brandVoice = ScoreOrDefault(analysis, "brandVoice")
  /\ Report.score.geoReadiness = ScoreOrDefault(analysis, "geoReadiness")
  /\ Report.score.technicalHealth = ScoreOrDefault(analysis, "technicalHealth")

\* C4: the report has dualAI exactly when both analyses succeeded; with
\* fewer than two successes its scores are those of the provider that
\* succeeded, and the default 50 only when none did.
C4_SingleProviderScores ==
  (pc = "done" /\ Status = 200) =>
    /\ IsSome(Report.dualAI) <=> BothFulfilled(tasks, "openai", "claude")
    /\ (tasks["openai"].state = "fulfilled" /\ tasks["claude"].state # "fulfilled")
         => ReportScoresAre(tasks["openai"].value.val)
    /\ (tasks["claude"].state = "fulfilled" /\ tasks["openai"].state # "fulfilled")
         => ReportScoresAre(tasks["claude"].value.val)
    /\ (tasks["openai"].state # "fulfilled" /\ tasks["claude"].state # "fulfilled")
         => (/\ Report.score.brandVoice = 50
             /\ Report.score.geoReadiness = 50
             /\ Report.score.technicalHealth = 50)

\* C5: without the primary key a request with a valid URL is answered 500
\* right after validation, with no collector or provider call, whatever the
\* other two keys.
C5_MissingPrimaryKeyIs500 ==
  (BodyParsed /\ ~UrlIsInvalid /\ ~env.openaiKey) =>
    /\ NoCallIssued
    /\ pc \notin {"start", "parsing"} => (pc = "done" /\ Status = 500)

C5_Witness ==
  /\ pc = "done"
  /\ Status = 500
  /\ ~UrlIsInvalid
  /\ ~env.openaiKey
  /\ env.anthropicKey
  /\ env.pageSpeedKey

\* C6: without the secondary key the primary analysis call is still issued,
\* the secondary provider is never called, and the answer is a 200 report
\* with neither dualAI nor brandAnalysis.
C6_SingleProviderMode ==
  (pc = "done" /\ PassedChecks /\ ~env.anthropicKey) =>
    /\ tasks["openai"].state # "idle"
    /\ tasks["claude"].state = "idle"
    /\ tasks["brandClaude"].state = "idle"
    /\ Status = 200
    /\ Report.dualAI = None
    /\ Report.brandAnalysis = None

\* C7: a brandAnalysis in a 200 report has a numeric
\* overallBrandClarityScore and every listed member populated, whatever JSON
\* the perception and recommendation calls returned.
C7_BrandAnalysisFullyPopulated ==
  (pc = "done" /\ Status = 200 /\ IsSome(Report.brandAnalysis)) =>
    LET brand == Report.brandAnalysis.val
    IN /\ IsSome(brand.overallBrandClarityScore)
       /\ brand.openaiPerception.detectedBrandAttributes.type = "array"
       /\ brand.claudePerception.detectedBrandAttributes.type = "array"
       /\ brand.competitivePositioning # ""

\* A perception call or the recommendation call failed, or the brand reducer
\* threw.
BrandBranchFailed ==
  \/ tasks["brandOpenAI"].state = "rejected"
  \/ tasks["brandClaude"].state = "rejected"
  \/ tasks["recommendations"].state = "rejected"
  \/ /\ tasks["recommendations"].state = "fulfilled"
     /\ BrandConsensusThrows(tasks["brandOpenAI"].value.val, tasks["brandClaude"].value.val)

\* The report of this request had the brand branch succeeded with these
\* answers.
ReportIfBrandSucceeded(o, c, r) ==
  BuildReport(tasks, dualAI, Some(createBrandConsensus(o, c, r)))

EverythingButSSLSucceeded ==
  /\ failed = {"ssl"}
  /\ env.pageSpeedKey
  /\ BothFulfilled(tasks, "openai", "claude")
  /\ BothFulfilled(tasks, "brandOpenAI", "brandClaude")
  /\ tasks["recommendations"].state = "fulfilled"
  /\ ~BrandConsensusThrows(tasks["brandOpenAI"].value.val, tasks["brandClaude"].value.val)

\* C9: when only the SSL collector fails the answer is a 200 report whose
\* ssl is { hasSSL: the url starts with https://, grade: "Error", error }
\* and whose other members are populated as when the SSL check succeeds.
C9_SSLFailureFallback ==
  (pc = "done" /\ EverythingButSSLSucceeded) =>
    /\ Status = 200
    /\ IsSome(Report.ssl)
    /\ Report.ssl.val.hasSSL = (request.url.text = <<"https:", "//", "example.com">>)
    /\ Report.ssl.val.grade = "Error"
    /\ IsSome(Report.ssl.val.error)
    /\ Report.performance.overallScore = 90
    /\ Report.schema.hasSchema
    /\ Report.socialTags.overallScore = 75
    /\ IsSome(Report.dualAI)
    /\ IsSome(Report.brandAnalysis)
    /\ Report =
         [BuildReport([tasks EXCEPT !["ssl"] = Fulfilled(SSLCheckResult(url))],
                      dualAI, brandAnalysis)
            EXCEPT !.ssl = Report.ssl]

C9_Witness ==
  /\ pc = "done"
  /\ EverythingButSSLSucceeded
  /\ request.url.text = <<"https:", "//", "example.com">>
  /\ Report.ssl.val.error = Some("fetch failed")

\* The mean of the three per-dimension absolute differences, as num / den.
MeanAbsoluteDiff(openai, claude) ==
  [num |-> Abs(SignedDiff(openai, claude, "brandVoice"))
           + Abs(SignedDiff(openai, claude, "geoReadiness"))
           + Abs(SignedDiff(openai, claude, "technicalHealth")),
   den |-> 3]

\* C10: the confidence of a consensus is derived from the mean of the three
\* per-dimension absolute score differences, so differences of opposite sign
\* do not cancel.
C10_ConfidenceFromMeanAbsoluteDiff ==
  IsSome(dualAI) =>
    dualAI.val.confidence
      = confidenceOf(MeanAbsoluteDiff(dualAI.val.openai, dualAI.val.claude))

\* avgScoreDiff of the consensus in thirds, so that the thresholds 10 and 20
\* are the integers 30 and 60.
DiffInThirds == avgScoreDiff(dualAI.val.openai, dualAI.val.claude).num

\* C11: the confidence is high exactly when avgScoreDiff < 10, medium exactly
\* when 10 <= avgScoreDiff < 20 and low exactly when avgScoreDiff >= 20; an
\* avgScoreDiff of exactly 10 is medium and of exactly 20 is low.
C11_ConfidenceThresholds ==
  IsSome(dualAI) =>
    /\ avgScoreDiff(dualAI.val.openai, dualAI.val.claude).den = 3
    /\ dualAI.val.confidence = "high" <=> DiffInThirds < 30
    /\ dualAI.val.confidence = "medium" <=> (30 <= DiffInThirds /\ DiffInThirds < 60)
    /\ dualAI.val.confidence = "low" <=> DiffInThirds >= 60

C11_Witness ==
  /\ IsSome(dualAI)
  /\ DiffInThirds = 30
  /\ dualAI.val.confidence = "medium"

\* The distinct lower-cased words of more than 4 characters two insights share.
SharedLongWords(a, b) ==
  { w \in { LowerWords(a)[i] : i \in 1..Len(a) } :
      Includes(LowerWords(b), w) /\ WordLength[w] > 4 }

\* C12: a primary insight is in agreedInsights exactly when some secondary
\* insight shares at least 2 distinct long words with it; agreedInsights
\* keeps the primary's order and is empty when either list is empty.
C12_AgreedInsightsShareTwoDistinctWords ==
  IsSome(dualAI) =>
    LET primary == dualAI.val.openai.keyInsights.items
        secondary == dualAI.val.claude.keyInsights.items
        agrees(insight) ==
          \E j \in 1..Len(secondary) :
             Cardinality(SharedLongWords(insight, secondary[j])) >= 2
    IN /\ dualAI.val.consensus.agreedInsights = SelectSeq(primary, agrees)
       /\ (primary = <<>> \/ secondary = <<>>) => dualAI.val.consensus.agreedInsights = <<>>

Body == response.val

\* C13: the diagnostic trace is returned only for debug = true: a response
\* (200, 400 or 500) to a request without debug = true has no diagnostics
\* member, and a 200 response to a request with debug = true has one with
\* the steps and the summary counts.
C13_DiagnosticsOnlyInDebug ==
  pc = "done" =>
    /\ ~DebugOf(request) => Body.diagnostics = None
    /\ (DebugOf(request) /\ Status = 200) =>
         /\ IsSome(Body.diagnostics)
         /\ Body.diagnostics.val.steps = diagnostics
         /\ IsSome(Body.diagnostics.val.summary)
         /\ Body.diagnostics.val.summary.val.totalSteps = Len(diagnostics)

\* Texts that say which credential is missing.
NamesCredential(text) ==
  text \in {"Server configuration error. OpenAI API key not configured.",
            "OpenAI API key not configured"}

\* The messages of the exceptions that reach the handler's catch block.
ThrownMessages ==
  {"Unexpected token in JSON", "openai.keyInsights.forEach is not a function"}

\* C14: a 500 response carries only a generic message: nothing in the body
\* of the configuration-error response says which credential is missing, and
\* the body of the response to an exception has neither the exception's
\* message nor its stack.
C14_GenericErrorBodies ==
  (pc = "done" /\ Status = 500) =>
    /\ ~NamesCredential(Body.message.val)
    /\ IsSome(Body.diagnostics) =>
         \A i \in 1..Len(Body.diagnostics.val.steps) :
            ~NamesCredential(Body.diagnostics.val.steps[i].error)
    /\ Body.message.val \notin ThrownMessages
    /\ Body.details = None

\* C15: a call that never settles cannot block the request: the request is
\* eventually answered even if outbound calls are left without an answer.
C15_HangingCallCannotBlock == <>(pc = "done")

\* The status a step of the trace should end with, given what happened to
\* the promise of its call.
TrueStatus(name) ==
  IF tasks[name].state = "rejected" \/ name \in failed THEN "error" ELSE "success"

StepStatus(step) == diagnostics[FindStep(diagnostics, step)].status

\* The steps of the trace whose call failed, and those never attempted.
ReallyFailed ==
  failed \cup { n \in {"openai", "claude", "brandOpenAI", "brandClaude"} :
                  tasks[n].state = "rejected" }

ReallySkipped ==
  (IF env.pageSpeedKey THEN {} ELSE {"pageSpeed"})
    \cup (IF env.anthropicKey THEN {} ELSE {"claude"})

\* C16: in the trace of a completed request a collector step ends as error
\* (with the message) when its call failed, PageSpeed ends as skipped when
\* there is no key, a step ends as success only when the call succeeded, and
\* the summary's failed and skipped counts count exactly those steps.
C16_CollectorStatusesAreTrue ==
  (pc = "done" /\ HasStep("Check SSL")) =>
    /\ StepStatus("Fetch PageSpeed data")
         = (IF env.pageSpeedKey THEN TrueStatus("pageSpeed") ELSE "skipped")
    /\ StepStatus("Scrape website") = TrueStatus("scrape")
    /\ StepStatus("Check SSL") = TrueStatus("ssl")
    /\ "scrape" \in failed =>
         diagnostics[FindStep(diagnostics, "Scrape website")].error = "Not Found"
    /\ (Status = 200 /\ debug) =>
         /\ Body.diagnostics.val.summary.val.failed = Cardinality(ReallyFailed)
         /\ Body.diagnostics.val.summary.val.skipped = Cardinality(ReallySkipped)

BrandCallIssued ==
  tasks["brandOpenAI"].state # "idle" \/ tasks["brandClaude"].state # "idle"

\* C17: the brand stage is entered only after both provider analyses
\* succeeded: no perception call is issued when an analysis call failed, and
\* a report has brandAnalysis only if it has dualAI.
C17_BrandOnlyAfterFullAnalysis ==
  /\ BrandCallIssued => BothFulfilled(tasks, "openai", "claude")
  /\ (pc = "done" /\ Status = 200 /\ IsSome(Report.brandAnalysis)) => IsSome(Report.dualAI)

Started(name) == tasks[name].state # "idle"

HasOutcome(name) == tasks[name].state = "fulfilled" \/ tasks[name].state = "rejected"

\* C18: the stages of a request are ordered: an analysis call starts only
\* when the three collector calls have settled, a perception call only when
\* both analysis calls have settled, and the recommendation call only when
\* both perception calls have settled and both succeeded.
C18_StagesAreOrdered ==
  /\ (Started("openai") \/ Started("claude")) =>
       (HasOutcome("pageSpeed") /\ HasOutcome("scrape") /\ HasOutcome("ssl"))
  /\ BrandCallIssued => (HasOutcome("openai") /\ HasOutcome("claude"))
  /\ Started("recommendations") =>
       (tasks["brandOpenAI"].state = "fulfilled" /\ tasks["brandClaude"].state = "fulfilled")
  /\ (tasks["brandOpenAI"].state = "rejected" \/ tasks["brandClaude"].state = "rejected")
       => ~Started("recommendations")

C18_Witness ==
  /\ tasks["recommendations"].state = "pending"
  /\ failed = {"scrape"}
  /\ tasks["openai"].state = "rejected"

\* C19: the secondary analysis call retries only after a rate-limit error,
\* at most 2 times, waiting 2s before the first retry and 4s before the
\* second; a rate-limit error ends the call only on the third attempt, and
\* any other error ends it without a wait.
C19_RetryOnlyOnRateLimit ==
  [][/\ (tasks["claude"].state # "waiting" /\ tasks'["claude"].state = "waiting") =>
          /\ tasks["claude"].state = "pending"
          /\ tasks'["claude"].reason = "rate_limit_error"
          /\ retries' = retries + 1
          /\ retries' \in {1, 2}
          /\ tasks'["claude"].value.val.waitTime = (IF retries' = 1 THEN 2000 ELSE 4000)
     /\ (tasks["claude"].state = "pending" /\ tasks'["claude"].state = "rejected"
           /\ tasks'["claude"].reason = "rate_limit_error") => retries = 2
     /\ tasks["claude"].state = "waiting" =>
          tasks'["claude"].state \in {"waiting", "pending"}
    ]_vars

C19_Witness ==
  /\ tasks["claude"].state = "waiting"
  /\ retries = 2
  /\ tasks["claude"].value.val.waitTime = 4000

\* An exception escaped to the handler's catch block.
ExceptionEscaped ==
  \/ request.json = "malformed"
  \/ /\ BothFulfilled(tasks, "openai", "claude")
     /\ ConsensusThrows(tasks["openai"].value.val, tasks["claude"].value.val)

\* C20: when every outbound call settles, every request ends with exactly
\* one response; a request that passed URL validation and the primary key
\* check ends in a 200 report, or in a 500 if an exception escaped; the
\* retry loop ends.
C20_EveryRequestIsAnswered ==
  /\ <>(pc = "done")
  /\ [](pc = "done" <=> IsSome(response))
  /\ []((pc = "done" /\ PassedChecks) =>
          IF ExceptionEscaped THEN Status = 500
          ELSE Status = 200 /\ IsSome(Body.report))
  /\ [](retries <= maxRetries)
  /\ [][IsSome(response) => response' = response]_vars

C20_Witness ==
  /\ pc = "done"
  /\ PassedChecks
  /\ Status = 200
  /\ tasks["claude"].state = "rejected"
  /\ tasks["claude"].reason = "rate_limit_error"

AllScoresAbsent(analysis) == analysis.scores = None

\* C21: when either analysis has no scores at all, the confidence of the
\* consensus is high, whatever the scores of the other analysis.
C21_AbsentScoresGiveHighConfidence ==
  (IsSome(dualAI)
     /\ (AllScoresAbsent(dualAI.val.openai) \/ AllScoresAbsent(dualAI.val.claude)))
    => dualAI.val.confidence = "high"

\* The step of the trace that belongs to each outbound call.
StepOf ==
  [n \in {"pageSpeed", "scrape", "ssl", "openai", "claude", "brandOpenAI", "brandClaude"} |->
     CASE n = "pageSpeed" -> "Fetch PageSpeed data"
       [] n = "scrape" -> "Scrape website"
       [] n = "ssl" -> "Check SSL"
       [] n = "openai" -> "Analyze with OpenAI"
       [] n = "claude" -> "Analyze with Claude"
       [] n = "brandOpenAI" -> "Brand analysis with OpenAI"
       [] n = "brandClaude" -> "Brand analysis with Claude"]

\* C22: the trace is append-only with one entry per stage: a step never
\* removes or reorders entries, no two entries have the same step name, and
\* the callback of an outbound call changes at most the entry of its own
\* step, in every interleaving of the callbacks.
C22_TraceIsAppendOnly ==
  [][/\ Len(diagnostics') >= Len(diagnostics)
     /\ \A i \in 1..Len(diagnostics) : diagnostics'[i].step = diagnostics[i].step
     /\ \A i, j \in 1..Len(diagnostics') :
          i # j => diagnostics'[i].step # diagnostics'[j].step
     /\ \A n \in DOMAIN StepOf :
          (tasks[n].state = "pending" /\ tasks'[n].state # "pending") =>
            /\ Len(diagnostics') = Len(diagnostics)
            /\ \A i \in 1..Len(diagnostics) :
                 diagnostics[i].step # StepOf[n] => diagnostics'[i] = diagnostics[i]
    ]_vars

C22_Witness ==
  /\ pc = "collecting"
  /\ failed = {"pageSpeed", "scrape"}
  /\ tasks["ssl"].state = "pending"
  /\ StepStatus("Fetch PageSpeed data") = "error"
  /\ StepStatus("Scrape website") = "error"
  /\ StepStatus("Check SSL") = "started"

\* a occurs in c as a contiguous run, ignoring case.
IsSubstringIgnoringCase(a, c) ==
  \E start \in 1..(Len(c) - Len(a) + 1) :
     \A k \in 1..Len(a) : LowerAttr(a)[k] = LowerAttr(c)[start + k - 1]

\* C23: consensusBrandAttributes is the subsequence, in order, of the
\* primary perception's attributes a for which some attribute c of the
\* secondary perception has a inside c or c inside a, ignoring case.
C23_ConsensusAttributesBySubstring ==
  IsSome(brandAnalysis) =>
    LET primary == brandAnalysis.val.openaiPerception.detectedBrandAttributes.items
        secondary == brandAnalysis.val.claudePerception.detectedBrandAttributes.items
        matches(a) ==
          \E j \in 1..Len(secondary) :
             \/ IsSubstringIgnoringCase(a, secondary[j])
             \/ IsSubstringIgnoringCase(secondary[j], a)
    IN brandAnalysis.val.consensusBrandAttributes = SelectSeq(primary, matches)

C23_Witness ==
  /\ IsSome(brandAnalysis)
  /\ brandAnalysis.val.consensusBrandAttributes = <<AttrInnovative, AttrTrusted, AttrModern>>
  /\ brandAnalysis.val.claudePerception.detectedBrandAttributes.items[1] = AttrInnovativeDesign

\* Twice the average of a dimension over the two perceptions; -1 when a
\* score is missing and the average is no number.
TwiceAverage(brand, dimension) ==
  IF IsSome(brand.openaiPerception[dimension]) /\ IsSome(brand.claudePerception[dimension])
  THEN brand.openaiPerception[dimension].val + brand.claudePerception[dimension].val
  ELSE -1

IsNumber(brand, dimension) == TwiceAverage(brand, dimension) # -1

\* The strength and the weakness entry of a dimension follow its average:
\* strength from 70, weakness below 50, nothing in between.
DimensionEntries(brand, dimension, strength, weakness) ==
  /\ Includes(brand.brandStrengths, strength)
       <=> (IsNumber(brand, dimension) /\ TwiceAverage(brand, dimension) >= 140)
  /\ Includes(brand.brandWeaknesses, weakness)
       <=> (IsNumber(brand, dimension) /\ TwiceAverage(brand, dimension) < 100)
  /\ ~(Includes(brand.brandStrengths, strength) /\ Includes(brand.brandWeaknesses, weakness))

\* C24: each dimension's average gives a strength exactly when it is >= 70,
\* a weakness exactly when it is < 50 and nothing in [50, 70), never both;
\* the number of consensus attributes gives a strength exactly when it is
\* >= 3 and a weakness exactly when it is < 2.
C24_StrengthsAndWeaknesses ==
  IsSome(brandAnalysis) =>
    LET brand == brandAnalysis.val
    IN /\ DimensionEntries(brand, "positioningClarity",
                           "Clear brand positioning", "Unclear brand positioning")
       /\ DimensionEntries(brand, "differentiationScore",
                           "Strong differentiation", "Weak competitive differentiation")
       /\ DimensionEntries(brand, "targetAudienceClarity",
                           "Well-defined target audience", "Unclear target audience")
       /\ Includes(brand.brandStrengths, "Consistent brand attributes across AI agents")
            <=> Len(brand.consensusBrandAttributes) >= 3
       /\ Includes(brand.brandWeaknesses, "Inconsistent brand perception across AI platforms")
            <=> Len(brand.consensusBrandAttributes) < 2

C24_Witness ==
  /\ IsSome(brandAnalysis)
  /\ TwiceAverage(brandAnalysis.val, "differentiationScore") = 140
  /\ Len(brandAnalysis.val.consensusBrandAttributes) = 2
  /\ brandAnalysis.val.brandStrengths = <<"Clear brand positioning", "Strong differentiation">>
  /\ brandAnalysis.val.brandWeaknesses = <<>>

\* The sum of the six scores of the two perceptions.
SumOfSixScores(brand) ==
  TwiceAverage(brand, "positioningClarity") + TwiceAverage(brand, "differentiationScore")
    + TwiceAverage(brand, "targetAudienceClarity")

AllSixScoresPresent(brand) ==
  /\ IsNumber(brand, "positioningClarity")
  /\ IsNumber(brand, "differentiationScore")
  /\ IsNumber(brand, "targetAudienceClarity")

\* C25: overallBrandClarityScore is the mean of the three per-dimension
\* averages, rounded with halves up (the integer r with
\* r <= sum / 6 + 1/2 < r + 1), and lies in 0..100 when the six scores do.
C25_OverallBrandClarityScore ==
  (IsSome(brandAnalysis) /\ AllSixScoresPresent(brandAnalysis.val)) =>
    LET r == brandAnalysis.val.overallBrandClarityScore
        sum == SumOfSixScores(brandAnalysis.val)
    IN /\ IsSome(r)
       /\ 6 * r.val <= sum + 3
       /\ sum + 3 < 6 * r.val + 6
       /\ r.val \in 0..100

C25_Witness ==
  /\ IsSome(brandAnalysis)
  /\ AllSixScoresPresent(brandAnalysis.val)
  /\ SumOfSixScores(brandAnalysis.val) = 363
  /\ brandAnalysis.val.overallBrandClarityScore = Some(61)

\* No saveSubmission call is running, and none has failed.
SavesCompleted == \A s \in Savers : savers[s].pc \in {"notCalled", "saved"}

Saved(s) == savers[s].pc = "saved"

\* C28: when concurrent saveSubmission calls have all completed without
\* error, every saved submission is found by getSubmission and is in what
\* getAllSubmissions returns; no completed save is lost to another save.
C28_NoSaveIsLost ==
  SavesCompleted =>
    \A s \in Savers :
      Saved(s) =>
        /\ getSubmission(file, SubmissionIdOf(s)) = Some(NewSubmission(s))
        /\ Includes(getAllSubmissions(file), NewSubmission(s))

\* The trace a response carries, if it carries one.
ReturnedTrace == IF IsSome(Body.diagnostics) THEN Body.diagnostics.val.steps ELSE <<>>

NoStepLeftStarted ==
  \A i \in 1..Len(ReturnedTrace) : ReturnedTrace[i].status \in {"success", "error", "skipped"}

SummaryAddsUp ==
  (IsSome(Body.diagnostics) /\ IsSome(Body.diagnostics.val.summary)) =>
    LET summary == Body.diagnostics.val.summary.val
    IN summary.successful + summary.failed + summary.skipped = summary.totalSteps

\* C27: in the trace returned with a response (a debug report or a 500), no
\* step is left in status 'started', so the summary's successful, failed and
\* skipped counts add up to totalSteps.
C27_NoStepLeftStarted ==
  (pc = "done" /\ IsSome(response)) => (NoStepLeftStarted /\ SummaryAddsUp)

\* The report page has finished loading.
ReportPageSettled == browser.page = "report" /\ browser.view \notin {"loading", "fetching"}

\* C26: after a successful form submission and the navigation to
\* /report?id=<submissionId>, the report is stored under that id (in
\* sessionStorage or on the server) and the report page ends showing it,
\* not the not-found state.
C26_SubmittedReportIsShown ==
  (browser.via = "submit" /\ ReportPageSettled) =>
    /\ \/ StorageKey(browser.submissionId) \in DOMAIN sessionStorage
       \/ IsSome(getSubmission(file, browser.submissionId))
    /\ browser.view = "report"

\* The reported overall score is the mean of the three reported scores,
\* rounded to the nearest integer (halves up).
OverallIsRoundedMean ==
  LET sum == Report.score.brandVoice + Report.score.geoReadiness + Report.score.technicalHealth
  IN Report.score.overall = (2 * sum + 3) \div 6

\* C29: when both provider analyses succeed, the three reported scores are
\* the primary analysis's scores for every value in 0..100, 0 included, 50
\* only for a score that is absent, and the overall score is the rounded
\* mean of the three reported values.
C29_ReportedScoresArePrimaryScores ==
  (pc = "done" /\ Status = 200 /\ IsSome(dualAI)) =>
    /\ ReportScoresAre(dualAI.val.openai)
    /\ OverallIsRoundedMean

\* The insights of a list, as a set.
InsightsOf(list) == { list[i] : i \in 1..Len(list) }

\* C30: in every consensus result agreedInsights and uniqueToOpenAI are
\* disjoint and together hold exactly the primary analysis's keyInsights,
\* and uniqueToClaude holds no secondary insight that matched an agreed
\* primary insight.
C30_ConsensusPartitionsInsights ==
  IsSome(dualAI) =>
    LET consensus == dualAI.val.consensus
        agreed == InsightsOf(consensus.agreedInsights)
    IN /\ agreed \cap InsightsOf(consensus.uniqueToOpenAI) = {}
       /\ agreed \cup InsightsOf(consensus.uniqueToOpenAI)
            = InsightsOf(dualAI.val.openai.keyInsights.items)
       /\ \A c \in InsightsOf(consensus.uniqueToClaude) :
            \A o \in agreed : ~InsightsMatch(o, c)

====
